---- MODULE Spec2Model ----
(***************************************************************************)
(* Reconciliation of a CloudsqlInstance record and of a Network record     *)
(* against the cloud provider: the Observe / Create / Update / Delete      *)
(* operations of cloudsqlExternal and networkExternal, the connection      *)
(* details of the database and the rotation of its root credentials.       *)
(***************************************************************************)
EXTENDS Integers, Sequences, FiniteSets, TLC

VARIABLES
    mg,      \* kind of the managed resource handed to the external client
    cr,      \* the CloudsqlInstance record in memory: spec, status, condition
    nw,      \* the Network record in memory: spec name, status
    stored,  \* the CloudsqlInstance spec as persisted in the record store
    secret,  \* the secret named by WriteConnectionSecretToReference
    cloud,   \* the provider: whether the instance and the network exist
             \* (in the loop also the resource it keeps reporting)
    last,    \* outcome of the last external-client call
    connector, \* the connector of the record's kind: its service factory
    hist     \* the driver's loop so far: corrections reported and made

vars == <<mg, cr, nw, stored, secret, cloud, last, connector, hist>>

----------------------------------------------------------------------------
(* Bounds of the model.                                                    *)

\* the count at which the history of the driver's loop stops counting
MaxCount == 2
\* longest list of reported addresses drawn for getConnectionDetails
MaxAddrs == 2
\* number of distinct values the password generator can return
MaxSeed == 1

----------------------------------------------------------------------------
(* Errors. nil is the empty chain; errors.Wrap puts a message in front.    *)

Nil == <<>>

GcpNotFound      == <<"googleapi: 404">>
GcpAlreadyExists == <<"googleapi: 409">>
GcpInternal      == <<"googleapi: 500">>
KubeNotFound     == <<"kube: not found">>
KubeInternal     == <<"kube: internal">>
RandFailed       == <<"rand: read failed">>

errManagedUpdateFailed    == "cannot update CloudsqlInstance CR"
errConnectionNotRetrieved == "cannot get connection details"
errInsertFailed           == "cannot insert new Cloudsql instance"
errDeleteFailed           == "cannot delete the Cloudsql instance"
errPatchFailed            == "cannot patch the Cloudsql instance"
errGetFailed              == "cannot get the Cloudsql instance"
errUpdateRootFailed       == "cannot update root user credentials"

Wrap(err, msg) == IF err = Nil THEN Nil ELSE <<msg>> \o err

IsErrorNotFound(err) == err = GcpNotFound

IsErrorAlreadyExists(err) == err = GcpAlreadyExists

IsKubeNotFound(err) == err = KubeNotFound

\* resource.Ignore(is, err), given is(err)
Ignore(is, err) == IF is THEN Nil ELSE err

\* "not found" kept like any other error
KeepNotFound(err) == err

IgnoreNotFound(err) == Ignore(IsKubeNotFound(err), err)

----------------------------------------------------------------------------
(* Values.                                                                 *)

Kinds == {"CloudsqlInstance", "Network"}

\* optional fields of CloudsqlInstanceParameters and the values they take
Fields == {"databaseVersion", "region"}
Values == {"x", "y"}
Unset  == "unset"
Specs  == [Fields -> Values \cup {Unset}]

StateRunnable       == "RUNNABLE"
StateCreating       == "PENDING_CREATE"
StateCreationFailed == "FAILED"
StateSuspended      == "SUSPENDED"
StateMaintenance    == "MAINTENANCE"
StateUnknownState   == "UNKNOWN_STATE"
StatePendingDelete  == "PENDING_DELETE"

\* the lifecycle phases the provider reports for an instance
Phases == {StateRunnable, StateCreating, StateCreationFailed, StateSuspended,
           StateMaintenance, StateUnknownState, StatePendingDelete}

PrivateIPType == "PRIVATE"
PublicIPType  == "PRIMARY"

UserKey      == "username"
PasswordKey  == "password"
EndpointKey  == "endpoint"
PrivateIPKey == "privateIP"
PublicIPKey  == "publicIP"

\* address entries a provider can report; an entry may carry an empty value
AddrEntries ==
    { [type |-> PrivateIPType, ip |-> "10.0.0.1"],
      [type |-> PrivateIPType, ip |-> ""],
      [type |-> PublicIPType,  ip |-> "1.2.3.4"],
      [type |-> PublicIPType,  ip |-> "5.6.7.8"] }

AddrListsUpTo(n) == UNION { [1..k -> AddrEntries] : k \in 0..n }

\* address lists reported by the provider during reconciliation
ReportedAddrs ==
    { <<>>,
      <<[type |-> PublicIPType, ip |-> "1.2.3.4"]>>,
      <<[type |-> PublicIPType, ip |-> "1.2.3.4"],
        [type |-> PrivateIPType, ip |-> "10.0.0.1"]>> }

\* an instance resource as the provider returns it from Get
Instances == [state : Phases, ipAddresses : ReportedAddrs, settings : [Fields -> Values]]

NoObservation == [state |-> "", ipAddresses |-> <<>>]

EmptyConn == [k \in {} |-> ""]

Put(m, k, v) == [x \in DOMAIN m \cup {k} |-> IF x = k THEN v ELSE m[x]]

Lookup(m, k) == IF k \in DOMAIN m THEN m[k] ELSE ""

PasswordLength == 20

----------------------------------------------------------------------------
(* Helpers of pkg/clients/cloudsql and of the API types.                   *)

\* the root user name of the instance, derived from the record's identity
DatabaseUserName(r) == "root-" \o r.externalName

GenerateObservation(instance) ==
    [state |-> instance.state, ipAddresses |-> instance.ipAddresses]

\* fill every unset optional field from the observed instance
LateInitializeSpec(spec, instance) ==
    [f \in Fields |-> IF spec[f] = Unset THEN instance.settings[f] ELSE spec[f]]

\* the instance resource sent to Insert and Patch
GenerateDatabaseInstance(spec, name) == [name |-> name, settings |-> spec]

Base64Len(n) == 4 * ((n + 2) \div 3)

RECURSIVE Repeat(_, _)
Repeat(c, n) == IF n = 0 THEN "" ELSE c \o Repeat(c, n - 1)

SeedChars == <<"A", "B", "C", "D">>

\* util.GeneratePassword: n random bytes, base64 encoded
GeneratePassword(seed, n) == Repeat(SeedChars[seed], Base64Len(n))

Call(name, err) == [call |-> name, err |-> err]

EmptyObservation == [exists |-> FALSE, upToDate |-> FALSE, conn |-> EmptyConn]

----------------------------------------------------------------------------
(* cloudsqlExternal.getConnectionDetails                                   *)

\* an iteration in which a private address, too, takes the endpoint only
\* when no address holds it yet
AddrStepFirstWins(m, ip) ==
    LET m1 == IF ip.type = PrivateIPType
                THEN LET p == Put(m, PrivateIPKey, ip.ip)
                     IN IF Lookup(p, EndpointKey) = ""
                          THEN Put(p, EndpointKey, ip.ip)
                          ELSE p
                ELSE m
        m2 == IF ip.type = PublicIPType
                THEN LET p == Put(m1, PublicIPKey, ip.ip)
                     IN IF Lookup(p, EndpointKey) = ""
                          THEN Put(p, EndpointKey, ip.ip)
                          ELSE p
                ELSE m1
    IN m2

\* one iteration of the loop over cr.Status.AtProvider.IPAddresses
AddrStep(m, ip) ==
    LET m1 == IF ip.type = PrivateIPType
                THEN Put(Put(m, PrivateIPKey, ip.ip), EndpointKey, ip.ip)
                ELSE m
        m2 == IF ip.type = PublicIPType
                THEN LET p == Put(m1, PublicIPKey, ip.ip)
                     IN IF Lookup(p, EndpointKey) = ""
                          THEN Put(p, EndpointKey, ip.ip)
                          ELSE p
                ELSE m1
    IN m2

RECURSIVE AddrLoop(_, _)
AddrLoop(m, ips) ==
    IF ips = <<>> THEN m ELSE AddrLoop(AddrStep(m, Head(ips)), Tail(ips))

\* connection details that leave the persisted password out
getConnectionDetailsNoPassword(r, sec, kubeGetErr) ==
    LET m0 == Put(EmptyConn, UserKey, DatabaseUserName(r))
    IN IF IgnoreNotFound(kubeGetErr) /= Nil
         THEN [conn |-> EmptyConn, err |-> kubeGetErr]
         ELSE [conn |-> AddrLoop(m0, r.atProvider.ipAddresses), err |-> Nil]

\* sec is the target secret, kubeGetErr the answer of c.kube.Get for it
getConnectionDetails(r, sec, kubeGetErr) ==
    LET m0   == Put(EmptyConn, UserKey, DatabaseUserName(r))
        data == IF kubeGetErr = Nil THEN sec.data ELSE EmptyConn
        m1   == IF Lookup(data, PasswordKey) /= ""
                  THEN Put(m0, PasswordKey, data[PasswordKey])
                  ELSE m0
    IN IF IgnoreNotFound(kubeGetErr) /= Nil
         THEN [conn |-> EmptyConn, err |-> kubeGetErr]
         ELSE [conn |-> AddrLoop(m1, r.atProvider.ipAddresses), err |-> Nil]

----------------------------------------------------------------------------
(* cloudsqlExternal: Observe, Create, Update, Delete.                      *)
(* rs holds the answers of the external calls the operation makes:         *)
(* rs.get, rs.instance (db.Get), rs.kubeUpdate (kube.Update of the         *)
(* record), rs.kubeGet (kube.Get of the target secret), rs.list, rs.users  *)
(* (user.List), rs.gen, rs.seed (GeneratePassword), rs.userUpdate          *)
(* (user.Update), rs.patch, rs.insert, rs.delete.                          *)
(* Every operation yields the record as it leaves it, what it returns and  *)
(* the trace of the calls it made.                                         *)

\* the switch on cr.Status.AtProvider.State
ConditionFor(state, current) ==
    CASE state = StateRunnable -> "Available"
      [] state = StateCreating -> "Creating"
      [] state \in {StateCreationFailed, StateSuspended, StateMaintenance,
                    StateUnknownState} -> "Unavailable"
      [] OTHER -> current

SetsCondition(state) ==
    state \in {StateRunnable, StateCreating, StateCreationFailed, StateSuspended,
               StateMaintenance, StateUnknownState}

\* the return on a failed db.Get with "not found" wrapped like any other error
GetFailedNoIgnore(r, getErr) ==
    [cr |-> r, write |-> FALSE, obs |-> EmptyObservation,
     err |-> Wrap(getErr, errGetFailed),
     trace |-> <<Call("db.Get", getErr)>>]

\* the return taken when db.Get fails
GetFailed(r, getErr) ==
    [cr |-> r, write |-> FALSE, obs |-> EmptyObservation,
     err |-> Wrap(Ignore(IsErrorNotFound(getErr), getErr), errGetFailed),
     trace |-> <<Call("db.Get", getErr)>>]

\* the observation stored and the spec taken from the observed instance
LateInitializedOverwrite(r, instance) ==
    [r EXCEPT !.atProvider = GenerateObservation(instance),
              !.spec = instance.settings]

\* the record once the observation is stored and the spec late-initialized
LateInitialized(r, instance) ==
    [r EXCEPT !.atProvider = GenerateObservation(instance),
              !.spec = LateInitializeSpec(r.spec, instance)]

\* a comparison that always reports a change
UpToDateNever(currentSpec, spec) == FALSE

\* a comparison that never reports a change
UpToDateAlways(currentSpec, spec) == TRUE

\* reflect.DeepEqual(currentSpec, &cr.Spec.ForProvider)
UpToDate(currentSpec, spec) == currentSpec = spec

\* resource.SetBindable unless resource.IsBound
Bindable(phase) == IF phase /= "Bound" THEN "Unbound" ELSE phase

Observe(r, sec, rs) ==
    IF rs.get /= Nil THEN GetFailed(r, rs.get)
    ELSE
      LET currentSpec == r.spec
          r2 == LateInitialized(r, rs.instance)
          upToDate == UpToDate(currentSpec, r2.spec)
          t1 == <<Call("db.Get", Nil)>>
          t2 == IF upToDate THEN t1 ELSE Append(t1, Call("kube.Update", rs.kubeUpdate))
      IN IF ~upToDate /\ rs.kubeUpdate /= Nil
           THEN [cr |-> r2, write |-> FALSE, obs |-> EmptyObservation,
                 err |-> Wrap(rs.kubeUpdate, errManagedUpdateFailed),
                 trace |-> t2]
           ELSE
             LET state == r2.atProvider.state
                 r3 == [r2 EXCEPT !.condition = ConditionFor(state, r2.condition),
                                  !.bindingPhase = IF state = StateRunnable
                                                     THEN Bindable(r2.bindingPhase)
                                                     ELSE r2.bindingPhase]
                 t3 == IF SetsCondition(state)
                         THEN Append(t2, Call("SetConditions", Nil)) ELSE t2
                 c  == getConnectionDetails(r3, sec, rs.kubeGet)
                 t4 == Append(t3, Call("kube.Get", rs.kubeGet))
             IN IF state = StateRunnable
                  THEN IF c.err /= Nil
                         THEN [cr |-> r3, write |-> ~upToDate, obs |-> EmptyObservation,
                               err |-> Wrap(c.err, errConnectionNotRetrieved),
                               trace |-> t4]
                         ELSE [cr |-> r3, write |-> ~upToDate,
                               obs |-> [exists |-> TRUE, upToDate |-> upToDate,
                                        conn |-> c.conn],
                               err |-> Nil, trace |-> t4]
                  ELSE [cr |-> r3, write |-> ~upToDate,
                        obs |-> [exists |-> TRUE, upToDate |-> upToDate,
                                 conn |-> EmptyConn],
                        err |-> Nil, trace |-> t3]

Create(r, rs) ==
    [cr |-> r,
     sent |-> GenerateDatabaseInstance(r.spec, r.externalName),
     err |-> Wrap(Ignore(IsErrorAlreadyExists(rs.insert), rs.insert), errInsertFailed),
     trace |-> <<Call("db.Insert", rs.insert)>>]

\* Delete that wraps every answer of db.Delete, "not found" included
DeleteNoAbsorb(r, rs) ==
    [cr |-> r,
     err |-> Wrap(rs.delete, errDeleteFailed),
     trace |-> <<Call("db.Delete", rs.delete)>>]

Delete(r, rs) ==
    [cr |-> r,
     err |-> IF IsErrorNotFound(rs.delete) THEN Nil ELSE Wrap(rs.delete, errDeleteFailed),
     trace |-> <<Call("db.Delete", rs.delete)>>]

\* the first entry of users.Items named like the root user, 0 when there is none
RECURSIVE FindUser(_, _, _)
FindUser(users, name, i) ==
    IF i > Len(users) THEN 0
    ELSE IF users[i] = name THEN i ELSE FindUser(users, name, i + 1)

\* a rotation that pushes a new password whatever is persisted
RotationPasswordFresh(persisted, seed) == GeneratePassword(seed, PasswordLength)

\* the password pushed to the provider: the persisted one, or a new one
RotationPassword(persisted, seed) ==
    IF persisted = "" THEN GeneratePassword(seed, PasswordLength) ELSE persisted

\* whether the rotation had to generate the password it pushes
Generates(persisted) == persisted = ""

updateRootCredentials(r, sec, rs) ==
    LET t1 == <<Call("user.List", rs.list)>>
        rootUser == FindUser(rs.users, DatabaseUserName(r), 1)
        c  == getConnectionDetails(r, sec, rs.kubeGet)
        t2 == Append(t1, Call("kube.Get", rs.kubeGet))
        persisted == Lookup(c.conn, PasswordKey)
        new == Generates(persisted)
        t3 == IF new THEN Append(t2, Call("GeneratePassword", rs.gen)) ELSE t2
        password == RotationPassword(persisted, rs.seed)
        conn == IF new THEN Put(c.conn, PasswordKey, password) ELSE c.conn
    IN IF rs.list /= Nil
         THEN [conn |-> EmptyConn, err |-> rs.list, trace |-> t1,
               generated |-> <<>>, pushed |-> <<>>]
       ELSE IF rootUser = 0
         THEN [conn |-> EmptyConn, err |-> GcpNotFound, trace |-> t1,
               generated |-> <<>>, pushed |-> <<>>]
       ELSE IF c.err /= Nil
         THEN [conn |-> EmptyConn, err |-> c.err, trace |-> t2,
               generated |-> <<>>, pushed |-> <<>>]
       ELSE IF new /\ rs.gen /= Nil
         THEN [conn |-> EmptyConn, err |-> rs.gen, trace |-> t3,
               generated |-> <<>>, pushed |-> <<>>]
       ELSE [conn |-> conn, err |-> rs.userUpdate,
             trace |-> Append(t3, Call("user.Update", rs.userUpdate)),
             generated |-> IF new THEN <<password>> ELSE <<>>,
             pushed |-> <<password>>]

\* Update that submits the patch whatever the rotation returned
UpdatePatchAlways(r, sec, rs) ==
    LET u == updateRootCredentials(r, sec, rs)
    IN [cr |-> r, conn |-> u.conn,
        err |-> Wrap(rs.patch, errPatchFailed),
        trace |-> Append(u.trace, Call("db.Patch", rs.patch)),
        generated |-> u.generated, pushed |-> u.pushed,
        sent |-> <<GenerateDatabaseInstance(r.spec, r.externalName)>>]

Update(r, sec, rs) ==
    LET u == updateRootCredentials(r, sec, rs)
    IN IF u.err /= Nil
         THEN [cr |-> r, conn |-> EmptyConn,
               err |-> Wrap(u.err, errUpdateRootFailed),
               trace |-> u.trace, generated |-> u.generated, pushed |-> u.pushed,
               sent |-> <<>>]
         ELSE [cr |-> r, conn |-> u.conn,
               err |-> Wrap(rs.patch, errPatchFailed),
               trace |-> Append(u.trace, Call("db.Patch", rs.patch)),
               generated |-> u.generated, pushed |-> u.pushed,
               sent |-> <<GenerateDatabaseInstance(r.spec, r.externalName)>>]

----------------------------------------------------------------------------
(* networkExternal: Observe, Create, Update, Delete.                       *)

\* the networks the provider can return from Networks.Get
Networks == {"auto", "custom"}

GenerateGCPNetworkStatus(observed) == observed

NetworkObserve(n, rs) ==
    IF IsErrorNotFound(rs.get)
      THEN [nw |-> n, obs |-> EmptyObservation, err |-> Nil,
            trace |-> <<Call("Networks.Get", rs.get)>>]
    ELSE IF rs.get /= Nil
      THEN [nw |-> n, obs |-> EmptyObservation, err |-> rs.get,
            trace |-> <<Call("Networks.Get", rs.get)>>]
    ELSE [nw |-> [n EXCEPT !.status = GenerateGCPNetworkStatus(rs.network)],
          obs |-> [exists |-> TRUE, upToDate |-> FALSE, conn |-> EmptyConn],
          err |-> Nil,
          trace |-> <<Call("Networks.Get", Nil)>>]

NetworkCreate(n, rs) ==
    [nw |-> n, err |-> rs.insert, trace |-> <<Call("Networks.Insert", rs.insert)>>]

NetworkUpdate(n, rs) ==
    [nw |-> n, err |-> rs.patch, trace |-> <<Call("Networks.Patch", rs.patch)>>]

NetworkDelete(n, rs) ==
    [nw |-> n,
     err |-> IF ~IsErrorNotFound(rs.delete) /\ rs.delete /= Nil THEN rs.delete ELSE Nil,
     trace |-> <<Call("Networks.Delete", rs.delete)>>]

----------------------------------------------------------------------------
(* The answers the provider and the record store can give. An operation    *)
(* stops at the first call that fails, so the answers of one operation are *)
(* the answers up to a first failure; calls that are not reached keep the  *)
(* answer of NoAnswers.                                                    *)

NoInstance == [state |-> "", ipAddresses |-> <<>>, settings |-> [f \in Fields |-> Unset]]

NoAnswers ==
    [get |-> Nil, instance |-> NoInstance, network |-> "", kubeUpdate |-> Nil,
     kubeGet |-> Nil, list |-> Nil, users |-> <<>>, gen |-> Nil, seed |-> 1,
     userUpdate |-> Nil, patch |-> Nil, insert |-> Nil, delete |-> Nil]

\* a read or a change of a resource that exists or not
OnResource(exists) == IF exists THEN {Nil, GcpInternal} ELSE {GcpNotFound, GcpInternal}

InsertAnswers(exists) == IF exists THEN {GcpAlreadyExists, GcpInternal} ELSE {Nil, GcpInternal}

\* reading the target secret when the store is healthy
SecretRead(sec) == IF sec.exists THEN Nil ELSE KubeNotFound

UserLists(r) == { <<>>, <<"other">>, <<"other", DatabaseUserName(r)>> }

ObserveAnswers(I, exists, sec) ==
    { [NoAnswers EXCEPT !.get = e] : e \in OnResource(exists) \ {Nil} }
    \cup
    IF exists
      THEN { [NoAnswers EXCEPT !.instance = i, !.kubeUpdate = k[1], !.kubeGet = k[2]] :
               i \in I,
               k \in { <<KubeInternal, SecretRead(sec)>>, <<Nil, KubeInternal>>,
                       <<Nil, SecretRead(sec)>> } }
      ELSE {}

UpdateAnswers(r, exists, sec) ==
    { [NoAnswers EXCEPT !.list = e] : e \in OnResource(exists) \ {Nil} }
    \cup
    IF exists
      THEN LET a0 == [NoAnswers EXCEPT !.kubeGet = SecretRead(sec)]
           IN { [a EXCEPT !.users = u] :
                  u \in UserLists(r),
                  a \in {[a0 EXCEPT !.kubeGet = KubeInternal], [a0 EXCEPT !.gen = RandFailed]}
                        \cup { [a0 EXCEPT !.seed = s, !.userUpdate = e[1], !.patch = e[2]] :
                                 s \in 1..MaxSeed,
                                 e \in { <<GcpInternal, Nil>>, <<Nil, GcpInternal>>,
                                         <<Nil, Nil>> } } }
      ELSE {}

\* the connector as SetupWithManager builds it: no service factory yet
NewConnector == [newServiceFn |-> "nil"]

\* the history of a loop that has made no call yet
NoHistory == [drifts |-> 0, updates |-> 0]

\* one more, up to MaxCount
Bump(n) == IF n < MaxCount THEN n + 1 ELSE n

Idle ==
    [client |-> "", op |-> "", err |-> Nil, obs |-> EmptyObservation,
     trace |-> <<>>, generated |-> <<>>, pushed |-> <<>>, instance |-> NoInstance]

Outcome(client, op, err, obs, trace) ==
    [Idle EXCEPT !.client = client, !.op = op, !.err = err, !.obs = obs, !.trace = trace]

----------------------------------------------------------------------------
(* Steps: one per operation of each external client. I is the set of       *)
(* instance resources the provider may return. The driver is registered    *)
(* for one kind of record and hands a client only records of its kind, so  *)
(* the type assertion at the head of an operation is the step's guard.     *)

ObserveStep(I) ==
    /\ mg = "CloudsqlInstance"
    /\
      \E rs \in ObserveAnswers(I, cloud.db, secret) :
        LET o == Observe(cr, secret, rs)
        IN /\ cr' = o.cr
           /\ stored' = IF o.write THEN o.cr.spec ELSE stored
           /\ last' = [Outcome("cloudsql", "Observe", o.err, o.obs, o.trace)
                         EXCEPT !.instance = rs.instance]
           /\ UNCHANGED <<connector, hist, mg, nw, secret, cloud>>

CreateStep ==
    /\ mg = "CloudsqlInstance"
    /\
      \E insert \in InsertAnswers(cloud.db) :
        LET o == Create(cr, [NoAnswers EXCEPT !.insert = insert])
        IN /\ cr' = o.cr
           /\ cloud' = IF insert = Nil THEN [cloud EXCEPT !.db = TRUE] ELSE cloud
           /\ last' = Outcome("cloudsql", "Create", o.err, EmptyObservation, o.trace)
           /\ UNCHANGED <<connector, hist, mg, nw, stored, secret>>

UpdateStep ==
    /\ mg = "CloudsqlInstance"
    /\
      \E rs \in UpdateAnswers(cr, cloud.db, secret) :
        LET o == Update(cr, secret, rs)
        IN /\ cr' = o.cr
           /\ last' = [Outcome("cloudsql", "Update", o.err,
                               [EmptyObservation EXCEPT !.conn = o.conn], o.trace)
                         EXCEPT !.generated = o.generated, !.pushed = o.pushed]
           /\ UNCHANGED <<connector, hist, mg, nw, stored, secret, cloud>>

DeleteStep ==
    /\ mg = "CloudsqlInstance"
    /\
      \E delete \in OnResource(cloud.db) :
        LET o == Delete(cr, [NoAnswers EXCEPT !.delete = delete])
        IN /\ cr' = o.cr
           /\ cloud' = IF delete = Nil THEN [cloud EXCEPT !.db = FALSE] ELSE cloud
           /\ last' = Outcome("cloudsql", "Delete", o.err, EmptyObservation, o.trace)
           /\ UNCHANGED <<connector, hist, mg, nw, stored, secret>>

NetObserveStep ==
    /\ mg = "Network"
    /\
      \E get \in OnResource(cloud.net), network \in Networks :
        LET o == NetworkObserve(nw, [NoAnswers EXCEPT !.get = get, !.network = network])
        IN /\ nw' = o.nw
           /\ last' = Outcome("network", "Observe", o.err, o.obs, o.trace)
           /\ UNCHANGED <<connector, hist, mg, cr, stored, secret, cloud>>

NetCreateStep ==
    /\ mg = "Network"
    /\
      \E insert \in InsertAnswers(cloud.net) :
        LET o == NetworkCreate(nw, [NoAnswers EXCEPT !.insert = insert])
        IN /\ nw' = o.nw
           /\ cloud' = IF insert = Nil THEN [cloud EXCEPT !.net = TRUE] ELSE cloud
           /\ last' = Outcome("network", "Create", o.err, EmptyObservation, o.trace)
           /\ UNCHANGED <<connector, hist, mg, cr, stored, secret>>

NetUpdateStep ==
    /\ mg = "Network"
    /\
      \E patch \in OnResource(cloud.net) :
        LET o == NetworkUpdate(nw, [NoAnswers EXCEPT !.patch = patch])
        IN /\ nw' = o.nw
           /\ last' = Outcome("network", "Update", o.err, EmptyObservation, o.trace)
           /\ UNCHANGED <<connector, hist, mg, cr, stored, secret, cloud>>

NetDeleteStep ==
    /\ mg = "Network"
    /\
      \E delete \in OnResource(cloud.net) :
        LET o == NetworkDelete(nw, [NoAnswers EXCEPT !.delete = delete])
        IN /\ nw' = o.nw
           /\ cloud' = IF delete = Nil THEN [cloud EXCEPT !.net = FALSE] ELSE cloud
           /\ last' = Outcome("network", "Delete", o.err, EmptyObservation, o.trace)
           /\ UNCHANGED <<connector, hist, mg, cr, stored, secret>>

----------------------------------------------------------------------------
(* The driver around the external client.                                  *)

\* the model keeps of the target secret the one entry the client reads
Merge(data, conn) ==
    IF PasswordKey \in DOMAIN conn THEN Put(data, PasswordKey, conn[PasswordKey]) ELSE data

\* the driver publishes the connection details of a successful Observe or
\* Update into the target secret, keeping what it does not publish
Publish ==
    /\ last.client = "cloudsql"
    /\ last.op \in {"Observe", "Update"}
    /\ last.err = Nil
    /\ last.obs.conn /= EmptyConn
    /\ secret' = [exists |-> TRUE, data |-> Merge(secret.data, last.obs.conn)]
    /\ last' = Idle
    /\ UNCHANGED <<connector, hist, mg, cr, nw, stored, cloud>>

\* the driver starts a reconciliation from the record as persisted
Fetch ==
    /\ cr.spec /= stored
    /\ cr' = [cr EXCEPT !.spec = stored]
    /\ last' = Idle
    /\ UNCHANGED <<connector, hist, mg, nw, stored, secret, cloud>>

----------------------------------------------------------------------------
(* Spec: the reconciliation of one record, any sequence of operations.     *)

Secrets ==
    { [exists |-> FALSE, data |-> EmptyConn],
      [exists |-> TRUE,  data |-> EmptyConn],
      [exists |-> TRUE,  data |-> Put(EmptyConn, PasswordKey, "secretpw")] }

NoSecret == [exists |-> FALSE, data |-> EmptyConn]

NewRecord(spec) ==
    [externalName |-> "db", spec |-> spec, atProvider |-> NoObservation,
     condition |-> "", bindingPhase |-> ""]

NewNetwork == [name |-> "net", status |-> ""]

\* the instance resources the provider returns while a record is reconciled
Reported ==
    [state : {StateRunnable, StateCreating},
     ipAddresses : {<<[type |-> PublicIPType, ip |-> "1.2.3.4"]>>},
     settings : [Fields -> Values]]

Init ==
    /\ mg \in Kinds
    /\ cr \in IF mg = "CloudsqlInstance" THEN {NewRecord(s) : s \in Specs}
              ELSE {NewRecord([f \in Fields |-> Unset])}
    /\ stored = cr.spec
    /\ nw = NewNetwork
    /\ secret \in IF mg = "CloudsqlInstance" THEN Secrets ELSE {NoSecret}
    /\ \E exists \in BOOLEAN :
         cloud = [db |-> exists /\ mg = "CloudsqlInstance",
                  net |-> exists /\ mg = "Network"]
    /\ last = Idle
    /\ connector = NewConnector
    /\ hist = NoHistory

CloudsqlObserve == ObserveStep(Reported)

Next ==
    \/ CloudsqlObserve
    \/ CreateStep
    \/ UpdateStep
    \/ DeleteStep
    \/ NetObserveStep
    \/ NetCreateStep
    \/ NetUpdateStep
    \/ NetDeleteStep
    \/ Publish
    \/ Fetch

Spec == Init /\ [][Next]_vars

----------------------------------------------------------------------------
(* SpecCall: one call of an external client on any record it can be given. *)

PriorObservations ==
    { NoObservation,
      [state |-> StateRunnable,
       ipAddresses |-> <<[type |-> PublicIPType, ip |-> "5.6.7.8"]>>] }

InitCall ==
    /\ mg \in Kinds
    /\ cr \in IF mg = "CloudsqlInstance"
                THEN { [NewRecord(s) EXCEPT !.atProvider = o,
                                            !.condition = IF o = NoObservation THEN ""
                                                          ELSE "Available",
                                            !.bindingPhase = b] :
                         s \in Specs, o \in PriorObservations, b \in {"", "Bound"} }
                ELSE {NewRecord([f \in Fields |-> Unset])}
    /\ stored = cr.spec
    /\ nw \in IF mg = "Network" THEN {NewNetwork, [NewNetwork EXCEPT !.status = "auto"]}
              ELSE {NewNetwork}
    /\ secret \in IF mg = "CloudsqlInstance" THEN Secrets ELSE {NoSecret}
    /\ \E exists \in BOOLEAN :
         cloud = [db |-> exists /\ mg = "CloudsqlInstance",
                  net |-> exists /\ mg = "Network"]
    /\ last = Idle
    /\ connector = NewConnector
    /\ hist = NoHistory

CallObserve == last = Idle /\ ObserveStep(Instances)

CallCreate == last = Idle /\ CreateStep

CallUpdate == last = Idle /\ UpdateStep

CallDelete == last = Idle /\ DeleteStep

CallNetObserve == last = Idle /\ NetObserveStep

CallNetCreate == last = Idle /\ NetCreateStep

CallNetUpdate == last = Idle /\ NetUpdateStep

CallNetDelete == last = Idle /\ NetDeleteStep

NextCall ==
    \/ CallObserve
    \/ CallCreate
    \/ CallUpdate
    \/ CallDelete
    \/ CallNetObserve
    \/ CallNetCreate
    \/ CallNetUpdate
    \/ CallNetDelete

SpecCall == InitCall /\ [][NextCall]_vars

----------------------------------------------------------------------------
(* SpecAddr: getConnectionDetails on every list of reported addresses.     *)

InitAddr ==
    /\ mg = "CloudsqlInstance"
    /\ cr \in { [NewRecord([f \in Fields |-> Unset]) EXCEPT
                   !.atProvider = [state |-> StateRunnable, ipAddresses |-> ips]] :
                ips \in AddrListsUpTo(MaxAddrs) }
    /\ stored = cr.spec
    /\ nw = NewNetwork
    /\ secret \in Secrets
    /\ cloud = [db |-> TRUE, net |-> FALSE]
    /\ last = Idle
    /\ connector = NewConnector
    /\ hist = NoHistory

ConnectionDetailsCall ==
    /\ last = Idle
    /\ \E kubeGet \in {SecretRead(secret), KubeInternal} :
         LET c == getConnectionDetails(cr, secret, kubeGet)
         IN last' = Outcome("cloudsql", "getConnectionDetails", c.err,
                            [EmptyObservation EXCEPT !.conn = c.conn],
                            <<Call("kube.Get", kubeGet)>>)
    /\ UNCHANGED <<connector, hist, mg, cr, nw, stored, secret, cloud>>

NextAddr == ConnectionDetailsCall

SpecAddr == InitAddr /\ [][NextAddr]_vars

----------------------------------------------------------------------------
(* The connectors. rs holds the answers of the calls Connect makes:        *)
(* rs.provider (kube.Get of the Provider), rs.project (its project),       *)
(* rs.credentials (the read of the provider's credential secret),          *)
(* rs.newService (the service factory).                                    *)

errProviderNotRetrieved       == "provider could not be retrieved"
errProviderSecretNotRetrieved == "secret referred in provider could not be retrieved"
errNewClient                  == "cannot create new Sqladmin Service"
errNewClientNetwork           == "cannot create new Compute Service"
errNameNotGiven               == "name for networkExternal resource is not provided"
errGetProvider                == "cannot get provider"

\* the factory cannot build a service from the credentials
MalformedCredentials == <<"credentials: malformed">>

Projects == {"project-a", "project-b"}

\* the lazy default of the service factory; the field belongs to the
\* connector, which every Connect of the controller shares. Connects that
\* race on it all read nil or the default and all store the default.
DefaultFactory(c, default) ==
    IF c.newServiceFn = "nil" THEN [c EXCEPT !.newServiceFn = default] ELSE c

\* a Connect that builds the service whatever the read of the credential
\* secret returned
ConnectNoSecretCheck(c, r, rs) ==
    LET t1 == <<Call("provider.Get", rs.provider)>>
        t3 == t1 \o <<Call("secret.Get", rs.credentials),
                      Call("newServiceFn", rs.newService)>>
        c2 == DefaultFactory(c, "sqladmin.NewService")
    IN IF rs.provider /= Nil
         THEN [cr |-> r, connector |-> c, external |-> <<>>,
               err |-> Wrap(rs.provider, errProviderNotRetrieved), trace |-> t1]
       ELSE IF rs.newService /= Nil
         THEN [cr |-> r, connector |-> c2, external |-> <<>>,
               err |-> Wrap(rs.newService, errNewClient), trace |-> t3]
       ELSE [cr |-> r, connector |-> c2,
             external |-> <<[projectID |-> rs.project]>>,
             err |-> Nil, trace |-> t3]

\* cloudsqlConnector.Connect
Connect(c, r, rs) ==
    LET t1 == <<Call("provider.Get", rs.provider)>>
        t2 == Append(t1, Call("secret.Get", rs.credentials))
        t3 == Append(t2, Call("newServiceFn", rs.newService))
        c2 == DefaultFactory(c, "sqladmin.NewService")
    IN IF rs.provider /= Nil
         THEN [cr |-> r, connector |-> c, external |-> <<>>,
               err |-> Wrap(rs.provider, errProviderNotRetrieved), trace |-> t1]
       ELSE IF rs.credentials /= Nil
         THEN [cr |-> r, connector |-> c, external |-> <<>>,
               err |-> Wrap(rs.credentials, errProviderSecretNotRetrieved),
               trace |-> t2]
       ELSE IF rs.newService /= Nil
         THEN [cr |-> r, connector |-> c2, external |-> <<>>,
               err |-> Wrap(rs.newService, errNewClient), trace |-> t3]
       ELSE [cr |-> r, connector |-> c2,
             external |-> <<[projectID |-> rs.project]>>,
             err |-> Nil, trace |-> t3]

\* clients.ProviderCredentials: reads the provider's credential secret
ProviderCredentials(rs) == rs.credentials

\* networkConnector.Connect
NetworkConnect(c, n, rs) ==
    LET t1 == <<Call("provider.Get", rs.provider)>>
        t2 == Append(t1, Call("secret.Get", rs.credentials))
        t3 == Append(t2, Call("newServiceFn", rs.newService))
        c2 == DefaultFactory(c, "googlecompute.NewService")
    IN IF n.name = ""
         THEN [nw |-> n, connector |-> c, external |-> <<>>,
               err |-> <<errNameNotGiven>>, trace |-> <<>>]
       ELSE IF rs.provider /= Nil
         THEN [nw |-> n, connector |-> c, external |-> <<>>,
               err |-> Wrap(rs.provider, errGetProvider), trace |-> t1]
       ELSE IF ProviderCredentials(rs) /= Nil
         THEN [nw |-> n, connector |-> c, external |-> <<>>,
               err |-> ProviderCredentials(rs), trace |-> t2]
       ELSE IF rs.newService /= Nil
         THEN [nw |-> n, connector |-> c2, external |-> <<>>,
               err |-> Wrap(rs.newService, errNewClientNetwork), trace |-> t3]
       ELSE [nw |-> n, connector |-> c2,
             external |-> <<[projectID |-> rs.project]>>,
             err |-> Nil, trace |-> t3]

\* the answers of the calls of Connect, up to a first failure
ConnectAnswers ==
    LET ok == [provider |-> Nil, project |-> "project-a", credentials |-> Nil,
               newService |-> Nil]
    IN { [ok EXCEPT !.provider = e] : e \in {KubeNotFound, KubeInternal} }
       \cup { [ok EXCEPT !.credentials = e] : e \in {KubeNotFound, KubeInternal} }
       \cup { [ok EXCEPT !.newService = MalformedCredentials] }
       \cup { [ok EXCEPT !.project = p] : p \in Projects }

\* what Connect returned: the external client, if any, in last.external;
\* last.project is the project of the Provider the record refers to
Connected(client, err, trace, external, project) ==
    [client |-> client, op |-> "Connect", err |-> err, obs |-> EmptyObservation,
     trace |-> trace, generated |-> <<>>, pushed |-> <<>>, instance |-> NoInstance,
     external |-> external, project |-> project]

ConnectStep ==
    /\ mg = "CloudsqlInstance"
    /\ \E rs \in ConnectAnswers :
         LET o == Connect(connector, cr, rs)
         IN /\ cr' = o.cr
            /\ connector' = o.connector
            /\ last' = Connected("cloudsql", o.err, o.trace, o.external, rs.project)
    /\ UNCHANGED <<hist, mg, nw, stored, secret, cloud>>

NetConnectStep ==
    /\ mg = "Network"
    /\ \E rs \in ConnectAnswers :
         LET o == NetworkConnect(connector, nw, rs)
         IN /\ nw' = o.nw
            /\ connector' = o.connector
            /\ last' = Connected("network", o.err, o.trace, o.external, rs.project)
    /\ UNCHANGED <<hist, mg, cr, stored, secret, cloud>>

\* the records of one kind that the driver reconciles
RecordNames == {"db", "db2"}

NetworkNames == {"", "net", "net2"}

\* the driver takes up another record of the controller's kind
Dispatch ==
    /\ last /= Idle
    /\ \/ /\ mg = "CloudsqlInstance"
          /\ \E name \in RecordNames, s \in Specs :
               /\ cr' = [NewRecord(s) EXCEPT !.externalName = name]
               /\ stored' = s
          /\ nw' = nw
       \/ /\ mg = "Network"
          /\ \E name \in NetworkNames : nw' = [NewNetwork EXCEPT !.name = name]
          /\ UNCHANGED <<cr, stored>>
    /\ last' = Idle
    /\ UNCHANGED <<connector, hist, mg, secret, cloud>>

\* a connector as built by SetupWithManager, or with an injected factory
Connectors == {NewConnector, [newServiceFn |-> "injected"]}

InitConnect ==
    /\ mg \in Kinds
    /\ cr = NewRecord([f \in Fields |-> Unset])
    /\ stored = cr.spec
    /\ nw \in IF mg = "Network"
                THEN {[NewNetwork EXCEPT !.name = name] : name \in NetworkNames}
                ELSE {NewNetwork}
    /\ secret = NoSecret
    /\ cloud = [db |-> FALSE, net |-> FALSE]
    /\ last = Idle
    /\ connector \in Connectors
    /\ hist = NoHistory

NextConnect ==
    \/ ConnectStep
    \/ NetConnectStep
    \/ Dispatch

SpecConnect == InitConnect /\ [][NextConnect]_vars

----------------------------------------------------------------------------
(* SpecLoop: the driver's loop on a record whose resource exists, while    *)
(* the provider's state and the user's spec no longer change. A pass       *)
(* starts from the record as persisted, calls Observe, publishes the       *)
(* connection details it returned and, when Observe reported an existing   *)
(* resource that is not up to date, calls Update once and publishes what   *)
(* that returned.                                                          *)

\* the history after an Observe that returned obs and err
Observed(h, err, obs) ==
    IF err = Nil /\ obs.exists /\ ~obs.upToDate
      THEN [h EXCEPT !.drifts = Bump(@)]
      ELSE h

\* the last Observe reported an existing resource that is not up to date
UpdateDue ==
    last.op = "Observe" /\ last.err = Nil /\ last.obs.exists /\ ~last.obs.upToDate

\* the target secret once the driver has published the details of a call
Published(sec, err, conn) ==
    IF err = Nil /\ conn /= EmptyConn
      THEN [exists |-> TRUE, data |-> Merge(sec.data, conn)]
      ELSE sec

LoopObserve ==
    /\ mg = "CloudsqlInstance"
    /\ ~UpdateDue
    /\ \E rs \in ObserveAnswers({cloud.instance}, cloud.db, secret) :
         LET o == Observe([cr EXCEPT !.spec = stored], secret, rs)
         IN /\ cr' = o.cr
            /\ stored' = IF o.write THEN o.cr.spec ELSE stored
            /\ secret' = Published(secret, o.err, o.obs.conn)
            /\ last' = [Outcome("cloudsql", "Observe", o.err, o.obs, o.trace)
                          EXCEPT !.instance = rs.instance]
            /\ hist' = Observed(hist, o.err, o.obs)
    /\ UNCHANGED <<connector, mg, nw, cloud>>

LoopUpdate ==
    /\ mg = "CloudsqlInstance"
    /\ UpdateDue
    /\ \E rs \in UpdateAnswers(cr, cloud.db, secret) :
         LET o == Update(cr, secret, rs)
         IN /\ cr' = o.cr
            /\ secret' = Published(secret, o.err, o.conn)
            /\ last' = [Outcome("cloudsql", "Update", o.err,
                                [EmptyObservation EXCEPT !.conn = o.conn], o.trace)
                          EXCEPT !.generated = o.generated, !.pushed = o.pushed]
    /\ hist' = [hist EXCEPT !.updates = Bump(@)]
    /\ UNCHANGED <<connector, mg, nw, stored, cloud>>

NetLoopObserve ==
    /\ mg = "Network"
    /\ ~UpdateDue
    /\ \E get \in OnResource(cloud.net) :
         LET o == NetworkObserve(nw, [NoAnswers EXCEPT !.get = get,
                                                       !.network = cloud.network])
         IN /\ nw' = o.nw
            /\ last' = Outcome("network", "Observe", o.err, o.obs, o.trace)
            /\ hist' = Observed(hist, o.err, o.obs)
    /\ UNCHANGED <<connector, mg, cr, stored, secret, cloud>>

NetLoopUpdate ==
    /\ mg = "Network"
    /\ UpdateDue
    /\ \E patch \in OnResource(cloud.net) :
         LET o == NetworkUpdate(nw, [NoAnswers EXCEPT !.patch = patch])
         IN /\ nw' = o.nw
            /\ last' = Outcome("network", "Update", o.err, EmptyObservation, o.trace)
    /\ hist' = [hist EXCEPT !.updates = Bump(@)]
    /\ UNCHANGED <<connector, mg, cr, stored, secret, cloud>>

\* the instance the provider keeps reporting: ready or still being created
Settled == { i \in Reported : \A f \in Fields : i.settings[f] = "x" }

\* the resource exists and the provider keeps reporting the same resource
InitLoop ==
    /\ mg \in Kinds
    /\ cr \in IF mg = "CloudsqlInstance" THEN {NewRecord(s) : s \in Specs}
              ELSE {NewRecord([f \in Fields |-> Unset])}
    /\ stored = cr.spec
    /\ nw = NewNetwork
    /\ secret \in IF mg = "CloudsqlInstance" THEN Secrets ELSE {NoSecret}
    /\ cloud \in IF mg = "CloudsqlInstance"
                   THEN { [db |-> TRUE, net |-> FALSE, instance |-> i, network |-> ""] :
                            i \in Settled }
                   ELSE { [db |-> FALSE, net |-> TRUE, instance |-> NoInstance,
                           network |-> n] : n \in Networks }
    /\ last = Idle
    /\ connector = NewConnector
    /\ hist = NoHistory

NextLoop ==
    \/ LoopObserve
    \/ LoopUpdate
    \/ NetLoopObserve
    \/ NetLoopUpdate

\* the driver keeps reconciling, and a call that can succeed again and
\* again does succeed at some point
SpecLoop ==
    /\ InitLoop
    /\ [][NextLoop]_vars
    /\ WF_vars(NextLoop)
    /\ SF_vars(LoopObserve /\ last'.err = Nil)
    /\ SF_vars(LoopUpdate /\ last'.err = Nil)
    /\ SF_vars(NetLoopObserve /\ last'.err = Nil)
    /\ SF_vars(NetLoopUpdate /\ last'.err = Nil)

----------------------------------------------------------------------------
(* Properties.                                                             *)

\* the answer the provider gave to the first external call of the last operation
FirstAnswer == last.trace[1].err

Called(name) == { i \in 1..Len(last.trace) : last.trace[i].call = name }

\* C1: for both resource types, a Create whose insert is answered "already
\* exists" returns no error, and a Create whose insert fails otherwise
\* returns an error.
C1_CreateRetrySafe ==
    last.op = "Create" =>
        /\ FirstAnswer \in {Nil, GcpAlreadyExists} => last.err = Nil
        /\ FirstAnswer \notin {Nil, GcpAlreadyExists} => last.err /= Nil

\* C2: for both resource types, a Delete answered "not found" (or accepted)
\* returns no error, a Delete that fails otherwise returns an error, and no
\* Delete changes the record (spec, status, condition) or the stored spec.
C2_DeleteIdempotent ==
    [][last'.op = "Delete" =>
         /\ last'.trace[1].err \in {Nil, GcpNotFound} => last'.err = Nil
         /\ last'.trace[1].err \notin {Nil, GcpNotFound} => last'.err /= Nil
         /\ cr' = cr /\ nw' = nw /\ stored' = stored]_vars

\* a Delete of the database instance found it absent and succeeded
C2_Witness ==
    /\ last.client = "cloudsql" /\ last.op = "Delete"
    /\ FirstAnswer = GcpNotFound /\ last.err = Nil
    /\ ~cloud.db
    /\ cr.atProvider /= NoObservation

\* C3: for both resource types, an Observe whose fetch is answered "not
\* found" returns exists=false and no error, makes no further call (no
\* write-back, no read of the secret), sets no condition, returns no
\* connection details and leaves the record, its status and its spec as
\* they were.
C3_ObserveAbsent ==
    [][(last'.op = "Observe" /\ last'.trace[1].err = GcpNotFound) =>
         /\ last'.err = Nil
         /\ last'.obs = EmptyObservation
         /\ Len(last'.trace) = 1
         /\ cr' = cr /\ nw' = nw /\ stored' = stored /\ secret' = secret]_vars

\* an Observe of an absent instance on a record that carries an earlier
\* observation, a condition and an unset spec field
C3_Witness ==
    /\ last.client = "cloudsql" /\ last.op = "Observe"
    /\ FirstAnswer = GcpNotFound /\ last.err = Nil /\ ~last.obs.exists
    /\ cr.atProvider /= NoObservation /\ cr.condition = "Available"
    /\ \E f \in Fields : cr.spec[f] = Unset

\* C4: no operation on the database record changes a spec field that holds
\* a value, whatever the provider reports; a field changes only from unset
\* to the value the provider reports in the same Observe, and only in an
\* Observe.
C4_SpecOnlyEnriched ==
    [][last'.op /= "" =>
         \A f \in Fields :
            /\ cr.spec[f] /= Unset => cr'.spec[f] = cr.spec[f]
            /\ cr'.spec[f] /= cr.spec[f] =>
                 /\ last'.client = "cloudsql" /\ last'.op = "Observe"
                 /\ cr'.spec[f] = last'.instance.settings[f]]_vars

\* an Observe late-initialized the spec and kept a set field whose value
\* differs from the one the provider reports
C4_Witness ==
    /\ last.client = "cloudsql" /\ last.op = "Observe"
    /\ last.err = Nil /\ last.obs.exists /\ ~last.obs.upToDate
    /\ \E f \in Fields : cr.spec[f] \notin {Unset, last.instance.settings[f]}

\* C5: in a database Observe that fetched the instance, upToDate is true
\* exactly when late-initialization changed no spec field; when it changed
\* the spec the record is written back exactly once, right after the fetch
\* and so before any condition is set or the secret is read; when it changed
\* nothing there is no write-back; and when the write-back fails Observe
\* returns an error, sets no condition and does not read the secret.
C5_WriteBack ==
    [][(last'.client = "cloudsql" /\ last'.op = "Observe" /\ last'.trace[1].err = Nil) =>
         LET changed == cr'.spec /= cr.spec
             t       == last'.trace
             at(c)   == { i \in 1..Len(t) : t[i].call = c }
         IN /\ last'.err = Nil => last'.obs.upToDate = ~changed
            /\ changed => at("kube.Update") = {2}
            /\ changed => \A i \in at("SetConditions") \cup at("kube.Get") : i > 2
            /\ ~changed => at("kube.Update") = {}
            /\ (changed /\ t[2].err = Nil) => stored' = cr'.spec
            /\ (changed /\ t[2].err /= Nil) =>
                 /\ last'.err /= Nil
                 /\ last'.obs = EmptyObservation
                 /\ Len(t) = 2
                 /\ cr'.condition = cr.condition
                 /\ stored' = stored]_vars

\* an Observe of a ready instance wrote the late-initialized record back,
\* then set the condition and read the secret
C5_Witness ==
    /\ last.client = "cloudsql" /\ last.op = "Observe" /\ last.err = Nil
    /\ ~last.obs.upToDate
    /\ [i \in 1..Len(last.trace) |-> last.trace[i].call]
         = <<"db.Get", "kube.Update", "SetConditions", "kube.Get">>
    /\ stored = cr.spec

\* C6: when a spec field set by the user differs from the value the provider
\* reports, a successful Observe leaves the field as it is and reports
\* upToDate=false.
C6_DriftSurfaced ==
    [][(last'.client = "cloudsql" /\ last'.op = "Observe" /\ last'.err = Nil
          /\ last'.obs.exists) =>
         \A f \in Fields :
            (cr.spec[f] /= Unset /\ cr.spec[f] /= last'.instance.settings[f]) =>
               /\ cr'.spec[f] = cr.spec[f]
               /\ ~last'.obs.upToDate]_vars

\* C7: a non-empty password in the target secret stays the same; an Update
\* that finds it generates nothing, and once its rotation has read the secret
\* it makes one account-update call that carries exactly that password, which
\* is also the password of the connection details it returns. An Update that
\* finds no password makes, once it has read the secret, one call of the
\* generator; when that succeeds the password is at least PasswordLength
\* long, one account-update call carries it and the returned connection
\* details hold it under the password key.
C7_PasswordReuse ==
    [][/\ Lookup(secret.data, PasswordKey) /= ""
            => Lookup(secret'.data, PasswordKey) = Lookup(secret.data, PasswordKey)
       /\ (last'.client = "cloudsql" /\ last'.op = "Update") =>
            LET persisted == Lookup(secret.data, PasswordKey)
                t     == last'.trace
                at(c) == { i \in 1..Len(t) : t[i].call = c }
                read  == \E i \in at("kube.Get") : t[i].err \in {Nil, KubeNotFound}
                made  == \E i \in at("GeneratePassword") : t[i].err = Nil
                conn  == last'.obs.conn
            IN /\ persisted /= "" =>
                    /\ last'.generated = <<>> /\ at("GeneratePassword") = {}
                    /\ read => /\ last'.pushed = <<persisted>>
                               /\ Cardinality(at("user.Update")) = 1
                    /\ ~read => last'.pushed = <<>> /\ at("user.Update") = {}
                    /\ conn /= EmptyConn => Lookup(conn, PasswordKey) = persisted
                    /\ last'.err = Nil => conn /= EmptyConn
               /\ (persisted = "" /\ read) => Cardinality(at("GeneratePassword")) = 1
               /\ (persisted = "" /\ made) =>
                    /\ Len(last'.generated) = 1
                    /\ Len(last'.generated[1]) >= PasswordLength
                    /\ last'.pushed = last'.generated
                    /\ Cardinality(at("user.Update")) = 1
                    /\ conn /= EmptyConn => Lookup(conn, PasswordKey) = last'.generated[1]
                    /\ last'.err = Nil => conn /= EmptyConn]_vars

\* an Update found in the secret a password that an earlier Update had
\* generated, pushed it again and generated nothing
C7_Witness ==
    /\ last.client = "cloudsql" /\ last.op = "Update" /\ last.err = Nil
    /\ Lookup(secret.data, PasswordKey) \notin {"", "secretpw"}
    /\ last.pushed = <<Lookup(secret.data, PasswordKey)>>
    /\ last.generated = <<>>
    /\ Lookup(last.obs.conn, PasswordKey) = Lookup(secret.data, PasswordKey)

\* C8: a database Update starts with the rotation (user.List first) and
\* submits the patch only as its last call, after every call of the rotation
\* succeeded; when the rotation fails (listing, no matching account, reading
\* the secret, generating, account update) Update returns the
\* credential-update error with empty connection details and no patch; when
\* no account matches nothing is generated and no account update is made.
C8_RotationFirst ==
    (last.client = "cloudsql" /\ last.op = "Update") =>
        LET t == last.trace
            failedAt(i) == IF t[i].call = "kube.Get"
                             THEN t[i].err \notin {Nil, KubeNotFound}
                             ELSE t[i].err /= Nil
            noMatch == Len(t) = 1 /\ t[1].err = Nil
            rotationFailed ==
                noMatch \/ \E i \in 1..Len(t) : t[i].call /= "db.Patch" /\ failedAt(i)
        IN /\ Len(t) >= 1 /\ t[1].call = "user.List"
           /\ \A i \in Called("db.Patch") :
                 /\ i = Len(t)
                 /\ \A j \in 1..(i - 1) : ~failedAt(j)
                 /\ Called("user.Update") = {i - 1}
           /\ rotationFailed =>
                 /\ last.err /= Nil /\ Head(last.err) = errUpdateRootFailed
                 /\ last.obs.conn = EmptyConn
                 /\ Called("db.Patch") = {}
           /\ ~rotationFailed => Called("db.Patch") /= {}
           /\ noMatch =>
                 /\ last.generated = <<>> /\ last.pushed = <<>>
                 /\ Called("GeneratePassword") = {} /\ Called("user.Update") = {}

\* an Update listed the accounts, found none named like the root user and
\* returned the credential-update error without a patch
C8_Witness ==
    /\ last.client = "cloudsql" /\ last.op = "Update"
    /\ last.trace = <<Call("user.List", Nil)>>
    /\ last.err = <<errUpdateRootFailed>> \o GcpNotFound
    /\ last.obs.conn = EmptyConn

AddrKeys == {EndpointKey, PrivateIPKey, PublicIPKey}

\* C9: the connection details of a list of one private address P and one
\* public address Q, in either order, hold endpoint=P, privateIP=P and
\* publicIP=Q (P and Q being addresses, that is non-empty values); those of
\* a list of one public address Q hold endpoint=Q, publicIP=Q and no
\* privateIP key; those of the empty list hold none of the three keys.
C9_AddressSelection ==
    (last.op = "getConnectionDetails" /\ last.err = Nil) =>
        LET ips  == cr.atProvider.ipAddresses
            conn == last.obs.conn
        IN /\ \A p, q \in AddrEntries :
                 (/\ p.type = PrivateIPType /\ p.ip /= ""
                  /\ q.type = PublicIPType /\ q.ip /= ""
                  /\ ips \in {<<p, q>>, <<q, p>>}) =>
                     /\ AddrKeys \subseteq DOMAIN conn
                     /\ conn[EndpointKey] = p.ip
                     /\ conn[PrivateIPKey] = p.ip
                     /\ conn[PublicIPKey] = q.ip
           /\ \A q \in AddrEntries :
                 (q.type = PublicIPType /\ ips = <<q>>) =>
                     /\ DOMAIN conn \cap AddrKeys = {EndpointKey, PublicIPKey}
                     /\ conn[EndpointKey] = q.ip
                     /\ conn[PublicIPKey] = q.ip
           /\ ips = <<>> => DOMAIN conn \cap AddrKeys = {}

\* the details of a list that reports the public address before the private
\* one: the private address holds the endpoint
C9_Witness ==
    /\ last.op = "getConnectionDetails" /\ last.err = Nil
    /\ cr.atProvider.ipAddresses = <<[type |-> PublicIPType, ip |-> "1.2.3.4"],
                                     [type |-> PrivateIPType, ip |-> "10.0.0.1"]>>
    /\ last.obs.conn[EndpointKey] = "10.0.0.1"
    /\ last.obs.conn[PublicIPKey] = "1.2.3.4"

\* C10: a database Observe that finds the instance and returns no error sets
\* exactly one condition: Available in the ready phase, Creating in the
\* creating phase, Unavailable in every other phase; it reads the secret and
\* returns connection details in the ready phase only.
C10_ConditionPerPhase ==
    (last.client = "cloudsql" /\ last.op = "Observe" /\ last.err = Nil /\ last.obs.exists) =>
        LET phase == cr.atProvider.state
        IN /\ Cardinality(Called("SetConditions")) = 1
           /\ cr.condition = CASE phase = StateRunnable -> "Available"
                               [] phase = StateCreating -> "Creating"
                               [] OTHER -> "Unavailable"
           /\ phase = StateRunnable =>
                 Called("kube.Get") /= {} /\ last.obs.conn /= EmptyConn
           /\ phase /= StateRunnable =>
                 Called("kube.Get") = {} /\ last.obs.conn = EmptyConn

\* the calls of a trace that go to the cloud provider
ProviderCalls ==
    {"db.Get", "db.Insert", "db.Patch", "db.Delete", "user.List", "user.Update",
     "Networks.Get", "Networks.Insert", "Networks.Patch", "Networks.Delete"}

\* C11: for both resource types and each of Observe, Create, Update and
\* Delete, a provider error that is not absorbed ("not found" on Observe and
\* Delete, "already exists" on Create) is returned with one message in front
\* of it that names the phase (for the database: get, insert, patch, delete,
\* root-credential update), and no operation makes the same external call
\* twice.
C11_ErrorsWrapped ==
    last.op \in {"Observe", "Create", "Update", "Delete"} =>
        LET t == last.trace
            absorbed(e) == \/ last.op \in {"Observe", "Delete"} /\ e = GcpNotFound
                           \/ last.op = "Create" /\ e = GcpAlreadyExists
            prefix(c) == CASE last.op = "Observe" -> errGetFailed
                           [] last.op = "Create"  -> errInsertFailed
                           [] last.op = "Delete"  -> errDeleteFailed
                           [] last.op = "Update" /\ c = "db.Patch" -> errPatchFailed
                           [] OTHER -> errUpdateRootFailed
        IN /\ \A i \in 1..Len(t) :
                 (t[i].call \in ProviderCalls /\ t[i].err /= Nil /\ ~absorbed(t[i].err)) =>
                    /\ Len(last.err) = Len(t[i].err) + 1
                    /\ Tail(last.err) = t[i].err
                    /\ last.client = "cloudsql" => Head(last.err) = prefix(t[i].call)
           /\ \A i, j \in 1..Len(t) : t[i].call = t[j].call => i = j

\* neither an Update is due or made, nor a write-back or an account update
NoCorrection ==
    /\ ~UpdateDue
    /\ last.op /= "Update"
    /\ (last.op = "Observe" /\ last.err = Nil /\ last.obs.exists) => last.obs.upToDate
    /\ Called("kube.Update") = {} /\ Called("user.Update") = {}

\* C12: in the driver's loop on a database record, with the provider's state
\* and the spec unchanged: at most one Observe reports upToDate=false and at
\* most one Update is made; once that Update is made, every later successful
\* Observe reports upToDate=true and there is no further Update, no
\* write-back of the record and no account-update call.
C12_LoopConverges ==
    (mg = "CloudsqlInstance") =>
        /\ hist.drifts <= 1
        /\ hist.updates <= hist.drifts
        /\ (hist.updates = 1 /\ last.op /= "Update") => NoCorrection

\* after an Update that generated and published a password, an Observe
\* reports the resource up to date
C12_Witness ==
    /\ last.client = "cloudsql" /\ last.op = "Observe" /\ last.err = Nil
    /\ last.obs.exists /\ last.obs.upToDate
    /\ Lookup(secret.data, PasswordKey) \notin {"", "secretpw"}
    /\ hist = [drifts |-> 1, updates |-> 1]

\* a successful Observe of an instance in the ready phase
ReadyObserve(l, r) ==
    /\ l.client = "cloudsql" /\ l.op = "Observe" /\ l.err = Nil /\ l.obs.exists
    /\ r.atProvider.state = StateRunnable

\* the connection details of the scenario of spec 8
ScenarioDetails ==
    [k \in {UserKey, PasswordKey, EndpointKey, PublicIPKey} |->
       CASE k = UserKey     -> "root-db"
         [] k = PasswordKey -> "secretpw"
         [] OTHER           -> "1.2.3.4"]

\* C13: the connection details a database Observe returns in the ready phase
\* depend on the external name, the persisted secret and the observed
\* addresses only: an Observe that follows another with the same addresses
\* and secret returns the same details, whatever the spec, the condition or
\* the reported settings; the user name is derived from the external name;
\* the password key is present exactly when the secret holds a non-empty
\* password, and holds that password; Observe generates nothing, makes no
\* account update and leaves the secret as it is; with one public address
\* "1.2.3.4" and the persisted password "secretpw" the details are exactly
\* username, password="secretpw", endpoint="1.2.3.4", publicIP="1.2.3.4" and
\* the condition is Available.
C13_ConnectionStable ==
    [][ReadyObserve(last', cr') =>
          LET conn      == last'.obs.conn
              persisted == Lookup(secret.data, PasswordKey)
              ips       == cr'.atProvider.ipAddresses
          IN /\ DOMAIN conn \subseteq {UserKey, PasswordKey} \cup AddrKeys
             /\ UserKey \in DOMAIN conn /\ conn[UserKey] = "root-" \o cr.externalName
             /\ (PasswordKey \in DOMAIN conn) <=> (persisted /= "")
             /\ persisted /= "" => conn[PasswordKey] = persisted
             /\ secret' = secret
             /\ last'.generated = <<>> /\ last'.pushed = <<>>
             /\ \A i \in 1..Len(last'.trace) :
                   last'.trace[i].call \notin {"GeneratePassword", "user.Update"}
             /\ (ips = <<[type |-> PublicIPType, ip |-> "1.2.3.4"]>> /\ persisted = "secretpw")
                   => conn = ScenarioDetails /\ cr'.condition = "Available"
             /\ (ReadyObserve(last, cr) /\ cr.atProvider.ipAddresses = ips)
                   => conn = last.obs.conn]_vars

\* the scenario of spec 8: ready, one public address, a persisted password
C13_Witness ==
    /\ ReadyObserve(last, cr)
    /\ last.obs.conn = ScenarioDetails
    /\ cr.condition = "Available"
    /\ Lookup(secret.data, PasswordKey) = "secretpw"

\* the calls of a trace that change the provider when it accepts them
MutatingCalls == {"user.Update", "db.Patch"}

\* C14: a database Update that returns an error has changed nothing at the
\* provider: none of its calls that change the root account's password or
\* the instance's configuration (user.Update, db.Patch) was accepted.
C14_NoPartialUpdate ==
    (last.client = "cloudsql" /\ last.op = "Update" /\ last.err /= Nil) =>
        \A i \in 1..Len(last.trace) :
            last.trace[i].call \in MutatingCalls => last.trace[i].err /= Nil

\* C15: no operation of an external client and no Connect writes a field
\* that calls share: the connector, shared by the reconciliations of every
\* record of its kind, is the same after the call as before.
C15_NoSharedWrite ==
    [][last'.op /= "" => connector' = connector]_vars

\* the calls of a Connect that reaches the construction of the service
ConnectCalls == <<"provider.Get", "secret.Get", "newServiceFn">>

\* C16: Connect reads the Provider, then its credential secret, then builds
\* the service, and stops at the first of these that fails: a failed read of
\* the Provider is followed by no other call, a failed read of the secret by
\* no construction; each failure returns an error (for the database: the
\* provider, provider-secret and new-client messages in front of the cause)
\* and no client; a client is returned exactly when the three steps succeed
\* and carries the Provider's project. A network Connect on a record with an
\* empty name fails before any call. Connect leaves the record as it is.
C16_ConnectOrder ==
    [][last'.op = "Connect" =>
          LET t      == last'.trace
              failed == { i \in 1..Len(t) : t[i].err /= Nil }
              cause  == t[Len(t)].err
          IN /\ cr' = cr /\ nw' = nw /\ stored' = stored
             /\ Len(t) <= 3 /\ \A i \in 1..Len(t) : t[i].call = ConnectCalls[i]
             /\ \A i \in failed : i = Len(t)
             /\ (last'.external /= <<>>) <=> (Len(t) = 3 /\ failed = {})
             /\ (last'.external /= <<>>) <=> (last'.err = Nil)
             /\ last'.external /= <<>> =>
                   last'.external = <<[projectID |-> last'.project]>>
             /\ last'.client = "cloudsql" =>
                   /\ Len(t) >= 1
                   /\ 1 \in failed => last'.err = <<errProviderNotRetrieved>> \o cause
                   /\ 2 \in failed => last'.err = <<errProviderSecretNotRetrieved>> \o cause
                   /\ 3 \in failed => last'.err = <<errNewClient>> \o cause
             /\ last'.client = "network" =>
                   /\ (nw.name = "") <=> (t = <<>>)
                   /\ failed /= {} =>
                         /\ Len(last'.err) >= Len(cause)
                         /\ SubSeq(last'.err, Len(last'.err) - Len(cause) + 1,
                                   Len(last'.err)) = cause]_vars

\* a database Connect read the Provider and its secret, built the service
\* and returned a client bound to the Provider's project
C16_Witness ==
    /\ last.op = "Connect" /\ last.client = "cloudsql" /\ last.err = Nil
    /\ Len(last.trace) = 3
    /\ last.project = "project-b"
    /\ last.external = <<[projectID |-> "project-b"]>>
    /\ cr.externalName = "db2"

\* C17: a database Observe that finds the instance ready and cannot read the
\* target secret (any error but "not found") returns the connection error
\* and an empty observation, although the record already carries the
\* observed status, the late-initialized spec (written back when it changed)
\* and the Available condition. When the secret is absent ("not found")
\* Observe succeeds and its connection details hold no password key.
C17_SecretReadFailure ==
    [][(last'.client = "cloudsql" /\ last'.op = "Observe") =>
          \A i \in 1..Len(last'.trace) :
             last'.trace[i].call = "kube.Get" =>
                LET e == last'.trace[i].err
                IN /\ e \notin {Nil, KubeNotFound} =>
                        /\ last'.err = <<errConnectionNotRetrieved>> \o e
                        /\ last'.obs = EmptyObservation
                        /\ cr'.atProvider.state = StateRunnable
                        /\ cr'.atProvider.state = last'.instance.state
                        /\ cr'.atProvider.ipAddresses = last'.instance.ipAddresses
                        /\ cr'.condition = "Available"
                        /\ \A f \in Fields :
                              cr.spec[f] = Unset => cr'.spec[f] = last'.instance.settings[f]
                        /\ cr'.spec /= cr.spec => stored' = cr'.spec
                   /\ e = KubeNotFound =>
                        /\ last'.err = Nil
                        /\ last'.obs.exists
                        /\ UserKey \in DOMAIN last'.obs.conn
                        /\ PasswordKey \notin DOMAIN last'.obs.conn]_vars

\* an Observe wrote the late-initialized record back, set Available, failed
\* to read the secret and returned the connection error
C17_Witness ==
    /\ last.client = "cloudsql" /\ last.op = "Observe"
    /\ last.err = <<errConnectionNotRetrieved>> \o KubeInternal
    /\ last.obs = EmptyObservation
    /\ Called("kube.Update") /= {}
    /\ cr.condition = "Available" /\ cr.atProvider.state = StateRunnable
    /\ stored = cr.spec
    /\ cr.bindingPhase = "Unbound"

\* C18: for every list of reported addresses, when the connection details
\* hold the endpoint key its value is the value of the privateIP key if that
\* key is present, and the value of the publicIP key otherwise.
C18_EndpointConsistent ==
    (last.op = "getConnectionDetails" /\ last.err = Nil
       /\ EndpointKey \in DOMAIN last.obs.conn) =>
        LET conn == last.obs.conn
        IN IF PrivateIPKey \in DOMAIN conn
             THEN conn[EndpointKey] = conn[PrivateIPKey]
             ELSE /\ PublicIPKey \in DOMAIN conn
                  /\ conn[EndpointKey] = conn[PublicIPKey]

\* C19: for a database record whose instance exists and stays ready, with a
\* matching root account, the driver's loop eventually publishes a non-empty
\* password into the target secret, whatever the initial spec.
C19_PasswordEventually ==
    (mg = "CloudsqlInstance" /\ cloud.instance.state = StateRunnable) =>
        <>(Lookup(secret.data, PasswordKey) /= "")

\* C20: for a network record whose network exists, with the provider's state
\* and the spec unchanged, the driver's loop reaches an Observe that reports
\* upToDate=true, and from some point on no Patch is sent.
C20_NetworkQuiescent ==
    (mg = "Network") =>
        /\ <>(last.op = "Observe" /\ last.obs.upToDate)
        /\ <>[](Called("Networks.Patch") = {})

====
